---- MODULE Spec2Model ----
(***************************************************************************)
(* A model of the PDF decomposition and metric extraction pipeline of       *)
(* src/tools/general_pdf_parser.py (class PDFParser) and of the schema     *)
(* src/schema/models.py validates against.                                 *)
(*                                                                         *)
(* Text is modelled character by character: a Python str is a sequence of  *)
(* one-character strings.  The Chinese characters of the keywords are      *)
(* written by their pinyin syllable ("lv" is the rate character, "jing li  *)
(* run" the three characters of net profit): one syllable, one character.  *)
(***************************************************************************)
EXTENDS Integers, Sequences, FiniteSets, TLC

VARIABLES
    \* ---- _parse_numeric_value applied to one cell (SpecNorm)
    cell,            \* the raw cell string handed to the normalizer
    parsed,          \* <<"pending">> before the call, <<"returned", r>> after it
    \* ---- _convert_to_md_table and the locator's split (SpecRender)
    table_data,      \* the RawTableGrid: a sequence of rows of cell strings
    md_str,          \* what _convert_to_md_table returned
    resplit,         \* per line of md_str, the cells line 146 recovers
    stage,           \* "raw" | "rendered" | "split"
    \* ---- process_pdf of two PDFParser instances (SpecDecompose)
    output_dir,      \* instance -> self.output_dir, a sequence of path components
    doc,             \* instance -> the PDF being processed
    ipc,             \* instance -> position inside process_pdf
    cursor,          \* instance -> <<page index, item index>> of the running loop
    disk,            \* path -> the instance whose write is on disk there
    written,         \* instance -> the paths the instance has written
    \* ---- process_pdf / map_tables_to_schema of one instance (Spec)
    module_names,    \* names bound in the parser module's namespace
    table_dir,       \* the files of self.table_dir: file name -> [lines, fresh]
    last_pdf,        \* pdf_name of the latest process_pdf call
    pc,              \* position inside map_tables_to_schema
    pdf_name,        \* pdf_name of the running map_tables_to_schema call
    files,           \* sorted(self.table_dir.glob("*.md")) of the running call
    fi, li, ki,      \* loop indices: table file, line, mapping entry
    extracted_data,  \* the dict built by the running call
    result           \* what the caller of map_tables_to_schema sees

normVars   == <<cell, parsed>>
renderVars == <<table_data, md_str, resplit, stage>>
decompVars == <<output_dir, doc, ipc, cursor, disk, written>>
mapVars    == <<module_names, table_dir, last_pdf, pc, pdf_name, files, fi, li, ki,
                extracted_data, result>>
vars       == <<normVars, renderVars, decompVars, mapVars>>

(***************************************************************************)
(* Python str operations, on sequences of characters.                      *)
(***************************************************************************)

\* The characters str.strip() removes, among those the model's text uses.
Whitespace == {" ", "\n"}

RECURSIVE LStrip(_)
LStrip(s) ==
    IF s # <<>> /\ Head(s) \in Whitespace THEN LStrip(Tail(s)) ELSE s

RECURSIVE RStrip(_)
RStrip(s) ==
    IF s # <<>> /\ s[Len(s)] \in Whitespace THEN RStrip(SubSeq(s, 1, Len(s) - 1)) ELSE s

\* str.strip()
Strip(s) == RStrip(LStrip(s))

\* str.replace(old, new) for a one-character old.
RECURSIVE Replace(_, _, _)
Replace(s, old, new) ==
    IF s = <<>> THEN <<>>
    ELSE (IF Head(s) = old THEN new ELSE <<Head(s)>>) \o Replace(Tail(s), old, new)

\* kw in line
Contains(line, kw) ==
    \E i \in 1..(Len(line) - Len(kw) + 1) : SubSeq(line, i, i + Len(kw) - 1) = kw

\* str.split(sep) for a one-character sep: always at least one piece.
RECURSIVE SplitFrom(_, _, _)
SplitFrom(s, sep, piece) ==
    IF s = <<>> THEN <<piece>>
    ELSE IF Head(s) = sep THEN <<piece>> \o SplitFrom(Tail(s), sep, <<>>)
    ELSE SplitFrom(Tail(s), sep, Append(piece, Head(s)))

Split(s, sep) == SplitFrom(s, sep, <<>>)

\* sep.join(parts)
RECURSIVE Join(_, _)
Join(sep, parts) ==
    IF parts = <<>> THEN <<>>
    ELSE IF Len(parts) = 1 THEN parts[1]
    ELSE parts[1] \o sep \o Join(sep, Tail(parts))

RECURSIVE Flatten(_)
Flatten(ss) == IF ss = <<>> THEN <<>> ELSE Head(ss) \o Flatten(Tail(ss))

(***************************************************************************)
(* float(str).  An Optional[float] is <<>> (None, or the ValueError the    *)
(* caller catches) or <<d>> with d an exact decimal [m, e] meaning         *)
(* m * 10^-e, kept canonical (no trailing zero in the fraction), so that   *)
(* "1.50" and "1.5" are the same value.  The literals of the model are     *)
(* short enough for distinct decimals to be distinct doubles.  The model's *)
(* text holds no exponent, underscore, "inf" or "nan" spelling.            *)
(***************************************************************************)
None == <<>>

Digits == {"0", "1", "2", "3", "4", "5", "6", "7", "8", "9"}

DigitVal(c) ==
    CASE c = "0" -> 0 [] c = "1" -> 1 [] c = "2" -> 2 [] c = "3" -> 3 [] c = "4" -> 4
      [] c = "5" -> 5 [] c = "6" -> 6 [] c = "7" -> 7 [] c = "8" -> 8 [] c = "9" -> 9

RECURSIVE DigitsToInt(_, _)
DigitsToInt(s, acc) ==
    IF s = <<>> THEN acc ELSE DigitsToInt(Tail(s), 10 * acc + DigitVal(Head(s)))

RECURSIVE Canonical(_, _)
Canonical(m, e) ==
    IF e > 0 /\ m % 10 = 0 THEN Canonical(m \div 10, e - 1) ELSE [m |-> m, e |-> e]

Neg(d) == [m |-> 0 - d.m, e |-> d.e]

\* digits [ "." [digits] ] | "." digits, the unsigned decimal forms of a float literal
UnsignedFloat(s) ==
    LET dots == {i \in 1..Len(s) : s[i] = "."}
        ok   == /\ \A i \in 1..Len(s) : s[i] \in Digits \cup {"."}
                /\ Cardinality(dots) <= 1
                /\ \E i \in 1..Len(s) : s[i] \in Digits
    IN  IF ~ok THEN None
        ELSE LET dot  == IF dots = {} THEN Len(s) + 1 ELSE CHOOSE i \in dots : TRUE
                 ip   == SubSeq(s, 1, dot - 1)
                 fp   == SubSeq(s, dot + 1, Len(s))
             IN  <<Canonical(DigitsToInt(ip \o fp, 0), Len(fp))>>

\* float(s): surrounding whitespace is ignored, one sign is allowed.
PyFloat(s) ==
    LET t == Strip(s)
    IN  IF t = <<>> THEN None
        ELSE IF Head(t) = "-"
             THEN LET u == UnsignedFloat(Tail(t)) IN IF u = None THEN None ELSE <<Neg(u[1])>>
        ELSE IF Head(t) = "+" THEN UnsignedFloat(Tail(t))
        ELSE UnsignedFloat(t)

(***************************************************************************)
(* PDFParser._parse_numeric_value                                          *)
(***************************************************************************)

\* line 171
CleanVal(c) == Strip(Replace(Replace(c, ",", <<>>), "%", <<>>))

\* line 174
IsParenthesized(clean_val) ==
    clean_val # <<>> /\ Head(clean_val) = "(" /\ clean_val[Len(clean_val)] = ")"

\* A bug the accounting-negative claim must detect: the sign is dropped.
ParenValueUnsigned(clean_val) ==
    PyFloat(SubSeq(clean_val, 2, Len(clean_val) - 1))

\* line 175: -float(clean_val[1:-1])
ParenValue(clean_val) ==
    LET f == PyFloat(SubSeq(clean_val, 2, Len(clean_val) - 1))
    IN  IF f = None THEN None ELSE <<Neg(f[1])>>

\* lines 171-178 for one cell: None stands for the ValueError that makes the
\* loop continue with the next cell.
TryCell(c) ==
    LET clean_val == CleanVal(c)
    IN  IF IsParenthesized(clean_val) THEN ParenValue(clean_val) ELSE PyFloat(clean_val)

\* A bug the candidate-selection claim must detect: the loop gives up at the
\* first cell that does not parse instead of continuing.
ParseNumericValueFirstOnly(cells) ==
    IF cells = <<>> THEN None ELSE TryCell(Head(cells))

\* lines 167-179
RECURSIVE ParseNumericValue(_)
ParseNumericValue(cells) ==
    IF cells = <<>> THEN None
    ELSE LET r == TryCell(Head(cells))
         IN  IF r # None THEN r ELSE ParseNumericValue(Tail(cells))

(***************************************************************************)
(* Values the variables of one specification keep while another runs.      *)
(***************************************************************************)
NormIdle   == cell = <<>> /\ parsed = <<"pending">>
RenderIdle == table_data = <<>> /\ md_str = <<>> /\ resplit = <<>> /\ stage = "raw"
DecompIdle ==
    /\ output_dir = <<>> /\ doc = <<>> /\ ipc = <<>> /\ cursor = <<>>
    /\ disk = <<>> /\ written = <<>>
MapIdle ==
    /\ module_names = {} /\ table_dir = <<>> /\ last_pdf = <<>> /\ pc = "idle"
    /\ pdf_name = <<>> /\ files = <<>> /\ fi = 0 /\ li = 0 /\ ki = 0
    /\ extracted_data = <<>> /\ result = <<>>

(***************************************************************************)
(* SpecNorm: _parse_numeric_value on a row of one cell, for every cell     *)
(* string of at most MaxCellLen characters over NormChars.                 *)
(***************************************************************************)
MaxCellLen == 5

NormChars == {"(", ")", ",", "%", " ", "1", "0", ".", "-"}

StringsUpTo(chars, n) == UNION {[1..k -> chars] : k \in 0..n}

NormInit ==
    /\ cell \in StringsUpTo(NormChars, MaxCellLen)
    /\ parsed = <<"pending">>
    /\ RenderIdle /\ DecompIdle /\ MapIdle

\* value = self._parse_numeric_value([cell])
NormalizeCell ==
    /\ parsed = <<"pending">>
    /\ parsed' = <<"returned", ParseNumericValue(<<cell>>)>>
    /\ UNCHANGED <<cell, renderVars, decompVars, mapVars>>

NormNext == NormalizeCell

SpecNorm == NormInit /\ [][NormNext]_vars

\* A numeric literal in the sense of the specification: an optional sign and
\* an unsigned decimal, with no blank inside.
NumericLiteral(n) ==
    /\ n # <<>>
    /\ \A i \in 1..Len(n) : n[i] \notin Whitespace
    /\ PyFloat(n) # None

\* The cell with its thousands separators and percent markers removed and
\* its surrounding whitespace trimmed.
Cleaned(c) == Strip(SelectSeq(c, LAMBDA ch : ch \notin {",", "%"}))

\* The cleaned cell has the form "(" n ")" with n a numeric literal.
AccountingForm(c) ==
    LET s == Cleaned(c)
    IN  /\ Len(s) >= 3 /\ s[1] = "(" /\ s[Len(s)] = ")"
        /\ NumericLiteral(SubSeq(s, 2, Len(s) - 1))

Magnitude(c) == PyFloat(SubSeq(Cleaned(c), 2, Len(Cleaned(c)) - 1))[1]

\* C5: a cell of the accounting-negative form "(" n ")" (after removing ","
\* and "%" and trimming) normalizes to the negation of n: it is neither
\* rejected nor returned un-negated.
C5_AccountingNegative ==
    (parsed[1] = "returned" /\ AccountingForm(cell))
        => parsed[2] = <<Neg(Magnitude(cell))>>

\* C5 witness: a cell such as "(1,1)" or "(1.1)%" has been normalized to a
\* non-zero negative value.
C5_Witness ==
    /\ parsed[1] = "returned" /\ AccountingForm(cell)
    /\ \E i \in 1..Len(cell) : cell[i] \in {",", "%"}
    /\ parsed[2] # None /\ parsed[2][1].m < 0

(***************************************************************************)
(* PDFParser._convert_to_md_table, and the reading back of its output.     *)
(***************************************************************************)

\* line 108: [str(cell).replace("\n", " ") for cell in row]
CleanRow(row) == [j \in 1..Len(row) |-> Replace(row[j], "\n", <<" ">>)]

\* line 109: "| " + " | ".join(clean_row) + " |\n"
RowLine(row) ==
    <<"|", " ">> \o Join(<<" ", "|", " ">>, CleanRow(row)) \o <<" ", "|", "\n">>

\* line 111: "| " + " | ".join(["---"] * len(row)) + " |\n"
SeparatorLine(row) ==
    <<"|", " ">> \o Join(<<" ", "|", " ">>, [j \in 1..Len(row) |-> <<"-", "-", "-">>])
        \o <<" ", "|", "\n">>

\* lines 100-112: the rendered text; the separator follows row 0.
ConvertToMdTable(data) ==
    IF data = <<>> THEN <<>>
    ELSE Flatten([i \in 1..Len(data) |->
                RowLine(data[i]) \o (IF i = 1 THEN SeparatorLine(data[i]) ELSE <<>>)])

\* f.readlines(): the lines of a text, each with its line end.
RECURSIVE ReadLinesFrom(_, _)
ReadLinesFrom(s, line) ==
    IF s = <<>> THEN (IF line = <<>> THEN <<>> ELSE <<line>>)
    ELSE IF Head(s) = "\n" THEN <<Append(line, "\n")>> \o ReadLinesFrom(Tail(s), <<>>)
    ELSE ReadLinesFrom(Tail(s), Append(line, Head(s)))

ReadLines(s) == ReadLinesFrom(s, <<>>)

\* A bug the round-trip claim must detect: the pieces are not trimmed.
SplitCellsUntrimmed(line) ==
    SelectSeq(Split(line, "|"), LAMBDA c : Strip(c) # <<>>)

\* line 146: [c.strip() for c in line.split("|") if c.strip()]
SplitCells(line) ==
    LET kept == SelectSeq(Split(line, "|"), LAMBDA c : Strip(c) # <<>>)
    IN  [j \in 1..Len(kept) |-> Strip(kept[j])]

(***************************************************************************)
(* SpecRender: a grid is rendered, and each rendered data line is split    *)
(* again the way map_tables_to_schema splits it.                           *)
(***************************************************************************)
MaxRows == 2
MaxCols == 2

\* blank; plain; padded, with an embedded newline; holding the delimiter
RenderCells == {<<>>, <<"c">>, <<" ", "a", "\n", "b">>, <<"a", "|", "b">>}

\* The grids page.extract_tables() returns: every row of a table has one
\* cell per column of the table.
Grids(rows, cols) == UNION {[1..r -> [1..c -> RenderCells]] : r \in 0..rows, c \in 0..cols}

RenderInit ==
    /\ table_data \in Grids(MaxRows, MaxCols)
    /\ md_str = <<>> /\ resplit = <<>> /\ stage = "raw"
    /\ NormIdle /\ DecompIdle /\ MapIdle

\* md_table = self._convert_to_md_table(clean_table)
Render ==
    /\ stage = "raw"
    /\ md_str' = ConvertToMdTable(table_data)
    /\ stage' = "rendered"
    /\ UNCHANGED <<table_data, resplit, normVars, decompVars, mapVars>>

\* The data lines of a rendered table: every line but the separator.
DataLines(lines) ==
    [i \in 1..(IF Len(lines) >= 2 THEN Len(lines) - 1 ELSE Len(lines)) |->
        IF i = 1 THEN lines[1] ELSE lines[i + 1]]

\* content = f.readlines(), then line 146 on each data line
Resplit ==
    /\ stage = "rendered"
    /\ resplit' = LET d == DataLines(ReadLines(md_str))
                  IN  [i \in 1..Len(d) |-> SplitCells(d[i])]
    /\ stage' = "split"
    /\ UNCHANGED <<table_data, md_str, normVars, decompVars, mapVars>>

RenderNext == Render \/ Resplit

SpecRender == RenderInit /\ [][RenderNext]_vars

\* The grid with every embedded newline replaced by a space.
Collapsed(data) ==
    [i \in 1..Len(data) |->
        [j \in 1..Len(data[i]) |->
            [k \in 1..Len(data[i][j]) |->
                IF data[i][j][k] = "\n" THEN " " ELSE data[i][j][k]]]]

Trimmed(data) ==
    [i \in 1..Len(data) |-> [j \in 1..Len(data[i]) |-> Strip(data[i][j])]]

AllCells(data) == UNION {{data[i][j] : j \in 1..Len(data[i])} : i \in 1..Len(data)}

\* No cell holds the delimiter and no cell is blank.
Splittable(data) ==
    \A c \in AllCells(data) :
        /\ \A k \in 1..Len(c) : c[k] # "|"
        /\ \E k \in 1..Len(c) : c[k] \notin Whitespace

\* C7 as stated: rendering and re-splitting recovers, row by row, the cells
\* of every grid with each embedded newline replaced by a space.
C7_RoundTripAnyGrid ==
    stage = "split" => resplit = Collapsed(table_data)

\* C7 amended: for a grid whose cells hold no delimiter and are not blank,
\* rendering and re-splitting recovers, row by row, the cells with each
\* embedded newline replaced by a space and surrounding whitespace trimmed.
C7_RoundTripSplittable ==
    (stage = "split" /\ Splittable(table_data))
        => resplit = Trimmed(Collapsed(table_data))

\* C7 witness: a two-row grid whose second row holds a plain cell and then a
\* padded multi-line cell went round.
C7_Witness ==
    /\ stage = "split" /\ Splittable(table_data)
    /\ Len(table_data) = 2
    /\ table_data[2] = << <<"c">>, <<" ", "a", "\n", "b">> >>

(***************************************************************************)
(* Paths.  A path is a sequence of components, a component a str.          *)
(***************************************************************************)

\* str(n) for a positive integer
RECURSIVE DecStr(_)
DecStr(n) ==
    LET d == <<"0", "1", "2", "3", "4", "5", "6", "7", "8", "9">>[(n % 10) + 1]
    IN  IF n < 10 THEN <<d>> ELSE Append(DecStr(n \div 10), d)

\* f"page{i+1}_{j+1}.{ext}" (lines 72, 95)
PageFileName(page, k, ext) ==
    <<"p", "a", "g", "e">> \o DecStr(page) \o <<"_">> \o DecStr(k) \o <<".">> \o ext

MdExt == <<"m", "d">>

\* line 18: the default output_base_dir, "./data/output" as pathlib keeps it
DefaultOutputDir == << <<"d", "a", "t", "a">>, <<"o", "u", "t", "p", "u", "t">> >>

\* line 20
ImgDir(out) == Append(out, <<"i", "m", "g", "s">>)

\* A bug the isolation claim must detect: the table directory is the one of
\* the default output directory, whatever output_base_dir is.
TableDirOfDefault(out) == Append(DefaultOutputDir, <<"t", "a", "b", "l", "e", "s">>)

\* line 21
TableDir(out) == Append(out, <<"t", "a", "b", "l", "e", "s">>)

\* line 55: self.output_dir / f"{pdf_name}.md"
TextPath(out, name) == Append(out, name \o <<".">> \o MdExt)

\* line 72
ImagePath(out, page, k, ext) == Append(ImgDir(out), PageFileName(page, k, ext))

\* line 95
TablePath(out, page, k) == Append(TableDir(out), PageFileName(page, k, MdExt))

(***************************************************************************)
(* SpecDecompose: two PDFParser instances, each running process_pdf once,  *)
(* their file writes interleaved.  A document is [name, pages]; a page is  *)
(* [images, tables]: the images page.get_images lists, each with the       *)
(* extension extract_image reports and whether extract_image succeeds, and *)
(* the number of tables page.extract_tables finds.  Directories are not    *)
(* modelled, only the files written into them.                             *)
(***************************************************************************)
Instances == {1, 2}

Png == <<"p", "n", "g">>

GoodImage == [ext |-> Png, ok |-> TRUE]
BadImage  == [ext |-> Png, ok |-> FALSE]

DecompDocs ==
    { [name  |-> <<"A">>,
       pages |-> << [images |-> <<BadImage>>, tables |-> 1],
                    [images |-> <<GoodImage>>, tables |-> 1] >>],
      [name  |-> <<"B">>,
       pages |-> << [images |-> <<GoodImage, GoodImage>>, tables |-> 2] >>],
      [name  |-> <<"p", "a", "g", "e", "1", "_", "1">>,
       pages |-> << [images |-> <<GoodImage>>, tables |-> 1] >>] }

OutputDirs ==
    { DefaultOutputDir,
      << <<"o", "u", "t">> >>,
      << <<"o", "u", "t">>, <<"t", "a", "b", "l", "e", "s">> >> }

NoDoc == [name |-> <<>>, pages |-> <<>>]

\* PDFParser(output_base_dir) has run for both instances.
DecompInit ==
    /\ output_dir \in [Instances -> OutputDirs]
    /\ doc = [i \in Instances |-> NoDoc]
    /\ ipc = [i \in Instances |-> "idle"]
    /\ cursor = [i \in Instances |-> <<1, 1>>]
    /\ disk = <<>>
    /\ written = [i \in Instances |-> {}]
    /\ NormIdle /\ RenderIdle /\ MapIdle

\* open(path, "w") and write: the file at path is now this instance's.
WriteFile(i, path) ==
    /\ disk' = [q \in DOMAIN disk \cup {path} |->
                    IF q = path THEN [by |-> i, pdf |-> doc[i].name] ELSE disk[q]]
    /\ written' = [written EXCEPT ![i] = @ \cup {path}]

\* The first position at or after <<p, k>> holding an item, <<>> if none;
\* counts[p] is the number of items of page p.
RECURSIVE NextItem(_, _, _)
NextItem(counts, p, k) ==
    IF p > Len(counts) THEN <<>>
    ELSE IF k <= counts[p] THEN <<p, k>>
    ELSE NextItem(counts, p + 1, 1)

ImageCounts(d) == [p \in 1..Len(d.pages) |-> Len(d.pages[p].images)]
TableCounts(d) == [p \in 1..Len(d.pages) |-> d.pages[p].tables]

\* line 35: process_pdf(pdf_path) is called
StartProcess(i, d) ==
    /\ ipc[i] = "idle" /\ doc[i] = NoDoc
    /\ doc' = [doc EXCEPT ![i] = d]
    /\ ipc' = [ipc EXCEPT ![i] = "text"]
    /\ UNCHANGED <<output_dir, cursor, disk, written, normVars, renderVars, mapVars>>

\* lines 49-58: _extract_text_to_md
ExtractTextToMd(i) ==
    /\ ipc[i] = "text"
    /\ WriteFile(i, TextPath(output_dir[i], doc[i].name))
    /\ ipc' = [ipc EXCEPT ![i] = "images"]
    /\ cursor' = [cursor EXCEPT ![i] = <<1, 1>>]
    /\ UNCHANGED <<output_dir, doc, normVars, renderVars, mapVars>>

\* lines 60-74: one iteration of the image loop, or its end.  An
\* extract_image that fails raises; nothing in _extract_images or process_pdf
\* catches it, so it leaves process_pdf before _extract_tables is called.
ExtractImages(i) ==
    /\ ipc[i] = "images"
    /\ LET at == NextItem(ImageCounts(doc[i]), cursor[i][1], cursor[i][2])
       IN  \/ /\ at = <<>>
              /\ ipc' = [ipc EXCEPT ![i] = "tables"]
              /\ cursor' = [cursor EXCEPT ![i] = <<1, 1>>]
              /\ UNCHANGED <<disk, written>>
           \/ /\ at # <<>>
              /\ ~doc[i].pages[at[1]].images[at[2]].ok
              /\ ipc' = [ipc EXCEPT ![i] = "raised"]
              /\ UNCHANGED <<cursor, disk, written>>
           \/ /\ at # <<>>
              /\ doc[i].pages[at[1]].images[at[2]].ok
              /\ WriteFile(i, ImagePath(output_dir[i], at[1], at[2],
                                        doc[i].pages[at[1]].images[at[2]].ext))
              /\ cursor' = [cursor EXCEPT ![i] = <<at[1], at[2] + 1>>]
              /\ UNCHANGED ipc
    /\ UNCHANGED <<output_dir, doc, normVars, renderVars, mapVars>>

\* lines 76-98: one iteration of the table loop, or its end
ExtractTables(i) ==
    /\ ipc[i] = "tables"
    /\ LET at == NextItem(TableCounts(doc[i]), cursor[i][1], cursor[i][2])
       IN  \/ /\ at = <<>>
              /\ ipc' = [ipc EXCEPT ![i] = "returned"]
              /\ UNCHANGED <<cursor, disk, written>>
           \/ /\ at # <<>>
              /\ WriteFile(i, TablePath(output_dir[i], at[1], at[2]))
              /\ cursor' = [cursor EXCEPT ![i] = <<at[1], at[2] + 1>>]
              /\ UNCHANGED ipc
    /\ UNCHANGED <<output_dir, doc, normVars, renderVars, mapVars>>

DecompNext ==
    \E i \in Instances :
        \/ \E d \in DecompDocs : StartProcess(i, d)
        \/ ExtractTextToMd(i)
        \/ ExtractImages(i)
        \/ ExtractTables(i)

SpecDecompose == DecompInit /\ [][DecompNext]_vars

RunEnded(i) == ipc[i] \in {"returned", "raised"}

BadPages(d) ==
    {p \in 1..Len(d.pages) : \E k \in 1..Len(d.pages[p].images) : ~d.pages[p].images[k].ok}

\* The table files process_pdf owes for a document.
TablePathsOf(out, d) ==
    UNION {{TablePath(out, p, k) : k \in 1..d.pages[p].tables} : p \in 1..Len(d.pages)}

\* The image files of the pages on which no extraction fails.
GoodPageImagePathsOf(out, d) ==
    UNION {{ImagePath(out, p, k, d.pages[p].images[k].ext) :
                k \in 1..Len(d.pages[p].images)} :
           p \in (1..Len(d.pages)) \ BadPages(d)}

\* C3: when image extraction fails for one image of one page, process_pdf
\* still runs to its end: the images of all other pages are written and the
\* table of every page is extracted.
C3_ImageFailureAbsorbed ==
    \A i \in Instances :
        (RunEnded(i) /\ Cardinality(BadPages(doc[i])) = 1)
            => /\ ipc[i] = "returned"
               /\ TablePathsOf(output_dir[i], doc[i]) \subseteq written[i]
               /\ GoodPageImagePathsOf(output_dir[i], doc[i]) \subseteq written[i]

IsPrefix(a, b) == Len(a) <= Len(b) /\ SubSeq(b, 1, Len(a)) = a

\* Neither output directory is the other or lies inside it.
SeparateDirs(a, b) == ~IsPrefix(a, b) /\ ~IsPrefix(b, a)

\* C4 as stated: any two instances processing two different documents never
\* write the same path.
C4_IsolationAnyInstances ==
    (doc[1] # NoDoc /\ doc[2] # NoDoc /\ doc[1] # doc[2])
        => written[1] \cap written[2] = {}

\* C4 amended: two instances whose output directories are different and not
\* nested never write the same path, so every file an instance wrote still
\* is the one it wrote.
C4_IsolationSeparateDirs ==
    SeparateDirs(output_dir[1], output_dir[2])
        => /\ written[1] \cap written[2] = {}
           /\ \A i \in Instances : \A q \in written[i] : disk[q].by = i

\* C4 witness: both instances have processed the same two-table document
\* to the end, in separate directories.
C4_Witness ==
    /\ SeparateDirs(output_dir[1], output_dir[2])
    /\ \A i \in Instances : ipc[i] = "returned" /\ doc[i].name = <<"B">>
    /\ \A i \in Instances : Cardinality(written[i]) = 5

(***************************************************************************)
(* Spec: one PDFParser instance; process_pdf fills self.table_dir and      *)
(* map_tables_to_schema scans it.  Only the files of self.table_dir are    *)
(* state here (the text and image files are SpecDecompose's), and the      *)
(* documents carry no image whose extraction fails.                        *)
(***************************************************************************)

\* The keywords of mapping_config, lines 129-134.
YingYeShouRu       == <<"ying", "ye", "shou", "ru">>
GuiShuJingLiRun    == <<"gui", "shu", "yu", "shang", "shi", "gong", "si", "gu", "dong",
                        "de", "jing", "li", "run">>
JingLiRun          == <<"jing", "li", "run">>
MaoLiLv            == <<"mao", "li", "lv">>
JingLiRunLv        == <<"jing", "li", "run", "lv">>
JingZiChanShouYiLv == <<"jing", "zi", "chan", "shou", "yi", "lv">>

\* lines 128-135, in the order dict iteration visits them
MappingConfig ==
    << [keyword |-> YingYeShouRu,       schema_key |-> "operating_revenue"],
       [keyword |-> GuiShuJingLiRun,    schema_key |-> "net_profit"],
       [keyword |-> JingLiRun,          schema_key |-> "net_profit"],
       [keyword |-> MaoLiLv,            schema_key |-> "gross_margin"],
       [keyword |-> JingLiRunLv,        schema_key |-> "profit_margin"],
       [keyword |-> JingZiChanShouYiLv, schema_key |-> "roe"] >>

\* models.py lines 89-93
MetricFields == {"operating_revenue", "net_profit", "gross_margin", "profit_margin", "roe"}

\* models.py lines 81-93: the fields declared with Field(...), all required
RequiredFields == {"company_name", "report_year", "report_period"} \cup MetricFields

\* line 153: "yuan" stands for the currency unit character
UnitOf(keyword) ==
    IF Contains(keyword, <<"lv">>) \/ Contains(keyword, <<"R", "O", "E">>)
    THEN "%" ELSE "yuan"

\* lines 5-15: the names the import block binds in the module
ImportedNames ==
    {"List", "Optional", "FinancialExtractionSchema", "logger", "os", "fitz",
     "pdfplumber", "pathlib"}

\* The module's namespace when its methods run.  The import block binds
\* neither ReportPeriod (read at line 124) nor json (read at line 165):
\* they resolve only where the importing application has bound them.
NameSpaces ==
    { ImportedNames,
      ImportedNames \cup {"ReportPeriod"},
      ImportedNames \cup {"ReportPeriod", "json"} }

\* A cell pdfplumber reports as None.
NoneCell == <<"<None>">>

\* line 88: [[(cell if cell else "") for cell in row] for row in table]
CleanTable(table) ==
    [i \in 1..Len(table) |->
        [j \in 1..Len(table[i]) |->
            IF table[i][j] = NoneCell THEN <<>> ELSE table[i][j]]]

\* The tables page.extract_tables() may return in this specification.
RevenueTable ==
    << <<YingYeShouRu, NoneCell, <<"1", ",", "2", "3", "4", ".", "5", "0">> >>,
       <<JingLiRun, <<"(", "5", "0", "0", ".", "0", "0", ")">> >>,
       <<JingLiRunLv, <<"4", "0", ".", "5", "%">> >> >>

MarginTable ==
    << <<YingYeShouRu, <<"n", "/", "a">>, <<"9", "0", "0">> >>,
       <<JingLiRunLv, <<"1", "2", ".", "5", "%">> >> >>

RatioTable ==
    << <<MaoLiLv, <<"-">> >>,
       <<MaoLiLv, <<"3", "0", "%">> >>,
       <<JingZiChanShouYiLv, <<"2", "5", ".", "5", "%">> >> >>

\* What one page holds: no table, or one of the tables.
PageContents == {<<>>, <<RevenueTable>>, <<MarginTable>>, <<RatioTable>>}

\* The pages of a document that may hold tables (1-based page numbers).
TablePages == {2, 10}

PdfNames == {<<"A", "_", "2", "4">>, <<"B">>}

\* Code points of the characters of a table file name.
CharCode(c) ==
    CASE c \in Digits -> 48 + DigitVal(c)
      [] c = "." -> 46  [] c = "_" -> 95  [] c = "a" -> 97  [] c = "d" -> 100
      [] c = "e" -> 101 [] c = "g" -> 103 [] c = "m" -> 109 [] c = "p" -> 112

\* str < str
RECURSIVE StrLess(_, _)
StrLess(a, b) ==
    IF b = <<>> THEN FALSE
    ELSE IF a = <<>> THEN TRUE
    ELSE IF Head(a) # Head(b) THEN CharCode(Head(a)) < CharCode(Head(b))
    ELSE StrLess(Tail(a), Tail(b))

\* line 138: sorted(self.table_dir.glob("*.md")); the paths share their
\* directory, so they are ordered by file name, as strings.
RECURSIVE SortedFiles(_)
SortedFiles(names) ==
    IF names = {} THEN <<>>
    ELSE LET least == CHOOSE a \in names : \A b \in names \ {a} : StrLess(a, b)
         IN  <<least>> \o SortedFiles(names \ {least})

\* line 155: int(table_file.stem.split('_')[0].replace("page", ""))
PageOfFile(name) ==
    LET stem  == SubSeq(name, 1, Len(name) - 3)
        first == Split(stem, "_")[1]
    IN  DigitsToInt(SubSeq(first, 5, Len(first)), 0)

\* line 121: pdf_name.split('_')[0]
CompanyName(name) == Split(name, "_")[1]

\* lines 88-98 for one table, as line 140 reads it back: a text file is kept
\* as the lines f.readlines() returns for what f.write(md_table) wrote.
FileLines ==
    [t \in UNION {{c[k] : k \in 1..Len(c)} : c \in PageContents} |->
        ReadLines(ConvertToMdTable(CleanTable(t)))]

LinesOf(name) == table_dir[name].lines

MapInit ==
    /\ module_names \in NameSpaces
    /\ table_dir = <<>>
    /\ last_pdf = <<>>
    /\ pc = "idle"
    /\ pdf_name = <<>> /\ files = <<>> /\ fi = 0 /\ li = 0 /\ ki = 0
    /\ extracted_data = <<>> /\ result = <<>>
    /\ NormIdle /\ RenderIdle /\ DecompIdle

\* lines 31-47, as far as self.table_dir goes: _extract_tables (lines 76-98)
\* writes page{i+1}_{j+1}.md for every table of every page and removes
\* nothing.  fresh marks the files the latest call wrote.
ProcessPdf(name, tables) ==
    /\ pc = "idle"
    /\ LET slots == UNION {{<<p, k>> : k \in 1..Len(tables[p])} : p \in TablePages}
           new   == {PageFileName(sl[1], sl[2], MdExt) : sl \in slots}
           slotOf(f) == CHOOSE sl \in slots : PageFileName(sl[1], sl[2], MdExt) = f
       IN  table_dir' =
               [f \in DOMAIN table_dir \cup new |->
                   IF f \in new
                   THEN [lines |-> FileLines[tables[slotOf(f)[1]][slotOf(f)[2]]],
                         fresh |-> TRUE]
                   ELSE [lines |-> table_dir[f].lines, fresh |-> FALSE]]
    /\ last_pdf' = name
    /\ UNCHANGED <<module_names, pc, pdf_name, files, fi, li, ki, extracted_data, result,
                   normVars, renderVars, decompVars>>

\* The loop position after <<f, l, k>>: the next mapping entry, else the
\* next line, else the first line of the next file that has lines;
\* <<Len(fs) + 1, 1, 1>> when the loops are over.
RECURSIVE FirstLineFrom(_, _)
FirstLineFrom(fs, f) ==
    IF f > Len(fs) THEN <<Len(fs) + 1, 1, 1>>
    ELSE IF Len(LinesOf(fs[f])) >= 1 THEN <<f, 1, 1>>
    ELSE FirstLineFrom(fs, f + 1)

NextPos(fs, f, l, k) ==
    IF k < Len(MappingConfig) THEN <<f, l, k + 1>>
    ELSE IF l < Len(LinesOf(fs[f])) THEN <<f, l + 1, 1>>
    ELSE FirstLineFrom(fs, f + 1)

\* lines 118-125 and 138: the call starts.  ReportPeriod.FY at line 124 raises
\* NameError where the name is unbound.
MapStart(name) ==
    /\ pc = "idle"
    /\ pdf_name' = name
    /\ \/ /\ "ReportPeriod" \notin module_names
          /\ result' = [kind |-> "NameError", name |-> "ReportPeriod"]
          /\ pc' = "done"
          /\ UNCHANGED <<files, fi, li, ki, extracted_data>>
       \/ /\ "ReportPeriod" \in module_names
          /\ extracted_data' = [key \in {"company_name", "stock_code", "report_year",
                                         "report_period"} |->
                                   CASE key = "company_name"  -> CompanyName(name)
                                     [] key = "stock_code"    -> "000000"
                                     [] key = "report_year"   -> 2024
                                     [] key = "report_period" -> "FY"]
          /\ LET fs == SortedFiles(DOMAIN table_dir)
                 at == FirstLineFrom(fs, 1)
             IN  files' = fs /\ fi' = at[1] /\ li' = at[2] /\ ki' = at[3]
          /\ pc' = "scan"
          /\ UNCHANGED result
    /\ UNCHANGED <<module_names, table_dir, last_pdf, normVars, renderVars, decompVars>>

\* A bug the first-occurrence claim must detect: a populated field is
\* extracted again.
ShouldExtractAgain(line, entry, data) == Contains(line, entry.keyword)

\* line 144
ShouldExtract(line, entry, data) ==
    Contains(line, entry.keyword) /\ entry.schema_key \notin DOMAIN data

\* lines 151-156
MetricItemOf(value, keyword, line, file) ==
    [value   |-> value[1],
     unit    |-> UnitOf(keyword),
     context |-> Strip(line),
     page    |-> PageOfFile(file)]

\* lines 143-156: one mapping entry against the current line
ScanEntry ==
    /\ pc = "scan" /\ fi <= Len(files)
    /\ LET line  == LinesOf(files[fi])[li]
           entry == MappingConfig[ki]
           value == ParseNumericValue(SplitCells(line))
           at    == NextPos(files, fi, li, ki)
       IN  /\ IF ShouldExtract(line, entry, extracted_data) /\ value # None
              THEN extracted_data' =
                       [key \in DOMAIN extracted_data \cup {entry.schema_key} |->
                           IF key = entry.schema_key
                           THEN MetricItemOf(value, entry.keyword, line, files[fi])
                           ELSE extracted_data[key]]
              ELSE UNCHANGED extracted_data
           /\ fi' = at[1] /\ li' = at[2] /\ ki' = at[3]
    /\ UNCHANGED <<module_names, table_dir, last_pdf, pc, pdf_name, files, result,
                   normVars, renderVars, decompVars>>

\* models.py lines 76-93: the fields FinancialExtractionSchema(**data) reports
\* in its ValidationError.  Every metric the scan built is a dict with a
\* float value, a str unit, a str context and an int page, so MetricItem
\* accepts it, and handle_percentage_strings (lines 95-110) leaves a float
\* value alone: a field fails only by being absent.
ValidationErrors(data) == {f \in RequiredFields : f \notin DOMAIN data}

\* lines 160-165: validation, and what the caller gets.  A ValidationError is
\* caught at line 163 and logged; line 165 then returns the raw dict as JSON,
\* or raises NameError where json is unbound.
Validate ==
    /\ pc = "scan" /\ fi > Len(files)
    /\ LET errors == ValidationErrors(extracted_data)
       IN  result' =
               IF errors = {}
               THEN [kind |-> "returned", validated |-> TRUE,
                     data |-> [key \in RequiredFields |-> extracted_data[key]]]
               ELSE IF "json" \in module_names
               THEN [kind |-> "returned", validated |-> FALSE, data |-> extracted_data,
                     warned |-> errors]
               ELSE [kind |-> "NameError", name |-> "json", warned |-> errors]
    /\ pc' = "done"
    /\ UNCHANGED <<module_names, table_dir, last_pdf, pdf_name, files, fi, li, ki,
                   extracted_data, normVars, renderVars, decompVars>>

\* The call is over: its locals are gone.
MapReturn ==
    /\ pc = "done"
    /\ pc' = "idle"
    /\ pdf_name' = <<>> /\ files' = <<>> /\ fi' = 0 /\ li' = 0 /\ ki' = 0
    /\ extracted_data' = <<>> /\ result' = <<>>
    /\ UNCHANGED <<module_names, table_dir, last_pdf, normVars, renderVars, decompVars>>

Next ==
    \/ \E name \in PdfNames, tables \in [TablePages -> PageContents] : ProcessPdf(name, tables)
    \/ \E name \in PdfNames : MapStart(name)
    \/ ScanEntry
    \/ Validate
    \/ MapReturn

Spec == MapInit /\ [][Next]_vars

(***************************************************************************)
(* The claims about map_tables_to_schema.                                  *)
(***************************************************************************)

\* The scan loop has been entered (the call did not stop at line 124).
InScan ==
    \/ pc = "scan"
    \/ pc = "done" /\ ~(result.kind = "NameError" /\ result.name = "ReportPeriod")

ScanOver == pc = "done" /\ InScan

Populated == MetricFields \cap DOMAIN extracted_data

\* Loop positions <<file, line, mapping entry>>, in the order of the loops.
Before(a, b) ==
    \/ a[1] < b[1]
    \/ a[1] = b[1] /\ a[2] < b[2]
    \/ a[1] = b[1] /\ a[2] = b[2] /\ a[3] < b[3]

\* The positions the loops have been through.
Scanned ==
    LET now == IF pc = "scan" THEN <<fi, li, ki>> ELSE <<Len(files) + 1, 1, 1>>
    IN  UNION {UNION {{<<f, l, k>> : k \in {j \in 1..Len(MappingConfig) :
                                            Before(<<f, l, j>>, now)}} :
                      l \in 1..Len(LinesOf(files[f]))} :
               f \in 1..Len(files)}

LineAt(q) == LinesOf(files[q[1]])[q[2]]

\* Every line a table file can hold.
AllLines == UNION {{FileLines[t][l] : l \in 1..Len(FileLines[t])} : t \in DOMAIN FileLines}

\* Per line: the mapping entries whose keyword occurs in it, and the value
\* its cells give.
EntriesIn == [line \in AllLines |->
                 {k \in 1..Len(MappingConfig) : Contains(line, MappingConfig[k].keyword)}]

ValueOf == [line \in AllLines |-> ParseNumericValue(SplitCells(line))]

\* The scanned positions where a keyword of field f meets a line.
MatchingFor(f) ==
    {q \in Scanned : MappingConfig[q[3]].schema_key = f /\ q[3] \in EntriesIn[LineAt(q)]}

\* Those among them whose line gives a numeric value.
YieldingFor(f) == {q \in MatchingFor(f) : ValueOf[LineAt(q)] # None}

FirstOf(qs) == CHOOSE q \in qs : \A r \in qs \ {q} : Before(q, r)

\* C1: first occurrence wins.  At every point of the scan a field is
\* populated exactly when some scanned line matched one of its keywords and
\* gave a value, and its value, unit, context and page are those of the
\* first such line (and mapping entry) in scan order: no later line or
\* entry has changed them.
C1_FirstOccurrenceWins ==
    InScan =>
        \A f \in MetricFields :
            LET ys == YieldingFor(f)
            IN  IF ys = {} THEN f \notin DOMAIN extracted_data
                ELSE /\ f \in DOMAIN extracted_data
                     /\ LET q == FirstOf(ys)
                        IN  extracted_data[f] =
                                [value   |-> ValueOf[LineAt(q)][1],
                                 unit    |-> UnitOf(MappingConfig[q[3]].keyword),
                                 context |-> Strip(LineAt(q)),
                                 page    |-> PageOfFile(files[q[1]])]

\* C1 witness: the scan is over and two different lines with different
\* values both matched the same field.
C1_Witness ==
    /\ ScanOver
    /\ \E f \in MetricFields : \E q, r \in YieldingFor(f) :
          /\ <<q[1], q[2]>> # <<r[1], r[2]>>
          /\ ValueOf[LineAt(q)] # ValueOf[LineAt(r)]

\* The validation outcome the specification describes.
MissingMetrics == MetricFields \ DOMAIN extracted_data

\* C2: when the candidate handed to validation lacks a metric field, the
\* caller of map_tables_to_schema gets a SchemaValidationError naming exactly
\* the missing fields.
C2_ValidationErrorNamesFields ==
    (ScanOver /\ MissingMetrics # {})
        => /\ result.kind = "SchemaValidationError"
           /\ result.fields = MissingMetrics

\* The value of the leftmost cell that normalizes, None if no cell does.
LeftmostNumeric(cells) ==
    LET good == {i \in 1..Len(cells) : TryCell(cells[i]) # None}
    IN  IF good = {} THEN None
        ELSE TryCell(cells[CHOOSE i \in good : \A j \in good : i <= j])

\* C6: a populated field holds the normalization of the leftmost non-empty
\* cell of its line that normalizes; a field still unpopulated has met only
\* lines none of whose cells normalizes.
C6_LeftmostNumericCell ==
    InScan =>
        \A f \in MetricFields :
            IF f \in DOMAIN extracted_data
            THEN <<extracted_data[f].value>>
                    = LeftmostNumeric(SplitCells(extracted_data[f].context))
            ELSE \A q \in MatchingFor(f) : LeftmostNumeric(SplitCells(LineAt(q))) = None

\* C6 witness: a field took its value from the third cell of its line, the
\* two cells before it not normalizing, while another field has met a line
\* without any numeric cell and is still unpopulated.
C6_Witness ==
    /\ InScan
    /\ \E f \in Populated :
          LET cells == SplitCells(extracted_data[f].context)
          IN  /\ Len(cells) >= 3
              /\ TryCell(cells[1]) = None /\ TryCell(cells[2]) = None
              /\ <<extracted_data[f].value>> = TryCell(cells[3])
    /\ \E f \in MetricFields \ Populated : MatchingFor(f) # {}

\* C8: a call for the document processed last takes every candidate from a
\* table file the latest process_pdf wrote.
C8_NoStaleTable ==
    (InScan /\ pdf_name = last_pdf)
        => \A f \in Populated :
              \E file \in DOMAIN table_dir :
                  /\ table_dir[file].fresh
                  /\ PageOfFile(file) = extracted_data[f].page
                  /\ \E l \in 1..Len(LinesOf(file)) :
                        Strip(LinesOf(file)[l]) = extracted_data[f].context

\* C9: the files are visited in ascending page order, so a field that lines
\* of several pages give a value for keeps the candidate of the smallest page.
C9_SmallestPageWins ==
    ScanOver =>
        \A f \in Populated :
            \A q \in YieldingFor(f) : extracted_data[f].page <= PageOfFile(files[q[1]])

\* The only metric label of the line is the profit-margin label: every
\* occurrence of the net-profit keyword is the start of it.
OnlyProfitMarginLabel(line) ==
    /\ Contains(line, JingLiRunLv)
    /\ \A i \in 1..Len(line) :
          (i + 2 <= Len(line) /\ SubSeq(line, i, i + 2) = JingLiRun)
              => (i + 3 <= Len(line) /\ line[i + 3] = "lv")
    /\ ~Contains(line, YingYeShouRu)
    /\ ~Contains(line, MaoLiLv)
    /\ ~Contains(line, JingZiChanShouYiLv)

\* C10: a line whose only metric label is the profit-margin label never
\* populates net_profit.
C10_ProfitMarginLineNotNetProfit ==
    (InScan /\ "net_profit" \in DOMAIN extracted_data)
        => ~OnlyProfitMarginLabel(extracted_data["net_profit"].context)

====
